---- MODULE Spec2Model ----
(***************************************************************************)
(* Quote translation of Material You NewTab (scripts/quote-translation.js):*)
(* the settings store, the bounded translation cache, the streaming client *)
(* translateQuoteStreaming and the display adapter, as a state machine.    *)
(*                                                                         *)
(* A JavaScript string is a sequence of one-character strings, so that     *)
(* concatenation, slice, indexOf and trim are computed as the code does.   *)
(***************************************************************************)
EXTENDS Integers, Sequences, FiniteSets, TLC

(***************************************************************************)
(* Strings                                                                 *)
(***************************************************************************)

\* JavaScript null (an absent author, a null result): no string equals it.
NULL == <<"<null>">>

\* A JavaScript value used as a condition: null and '' are falsy.
Truthy(s) == s # NULL /\ s # <<>>

\* s.slice(from, to) with 0-based from (inclusive) and to (exclusive), clamped.
Slice(s, from, to) ==
    LET hi == IF to > Len(s) THEN Len(s) ELSE to
    IN  IF from >= hi THEN <<>> ELSE SubSeq(s, from + 1, hi)

\* s.indexOf(ch): the 0-based index of the first occurrence, -1 when none.
IndexOf(s, ch) ==
    IF \E i \in 1..Len(s) : s[i] = ch
    THEN (CHOOSE i \in 1..Len(s) : s[i] = ch /\ \A j \in 1..(i - 1) : s[j] # ch) - 1
    ELSE -1

\* s.trim(): leading and trailing white space removed.
Trim(s) ==
    LET ink == {i \in 1..Len(s) : s[i] # " "}
    IN  IF ink = {} THEN <<>>
        ELSE LET lo == CHOOSE i \in ink : \A j \in ink : i <= j
                 hi == CHOOSE i \in ink : \A j \in ink : j <= i
             IN  SubSeq(s, lo, hi)

\* s.startsWith(t)
StartsWith(s, t) == Len(t) <= Len(s) /\ SubSeq(s, 1, Len(t)) = t

\* The in-order concatenation of a sequence of strings.
RECURSIVE Concat(_)
Concat(ss) == IF ss = <<>> THEN <<>> ELSE Head(ss) \o Concat(Tail(ss))

(***************************************************************************)
(* Translation cache: localStorage[TRANSLATION_CACHE_KEY], a JSON object.  *)
(* It is held as the sequence of its entries in Object.entries order       *)
(* (insertion order: every key holds a "|", so none is an array index).    *)
(***************************************************************************)

\* The cap of the cache: entries.length > 100, entries.slice(0, 100).
CACHE_LIMIT == 100

\* The cache key of translateQuoteStreaming: the author is part of the key
\* when authorName is truthy.
cacheKey(quoteText, targetLang, authorName) ==
    IF Truthy(authorName)
    THEN quoteText \o <<"|">> \o authorName \o <<"|">> \o targetLang
    ELSE quoteText \o <<"|">> \o targetLang

\* The cache key of saveTranslationToCache and getTranslationFromCache.
plainCacheKey(quoteText, targetLang) == quoteText \o <<"|">> \o targetLang

CacheKeys(c) == {c[i].key : i \in 1..Len(c)}

\* cache[key]: the set holding the entry under key (empty when undefined).
CacheGet(c, key) == {c[i] : i \in {j \in 1..Len(c) : c[j].key = key}}

\* A plausible slip: an entry already under the key is left as it is.
CacheAssignKeepsFirst(c, entry) ==
    IF entry.key \in CacheKeys(c) THEN c ELSE Append(c, entry)

\* cache[key] = entry: an existing key keeps its place, a new one goes last.
CacheAssign(c, entry) ==
    IF entry.key \in CacheKeys(c)
    THEN [i \in 1..Len(c) |-> IF c[i].key = entry.key THEN entry ELSE c[i]]
    ELSE Append(c, entry)

\* The entries with their places in Object.entries order.
Indexed(entries) == [i \in 1..Len(entries) |-> [entry |-> entries[i], at |-> i]]

\* A plausible slip: the comparator reversed, which keeps the oldest entries.
SortOldestFirst(entries) ==
    LET Before(a, b) == \/ a.entry.timestamp < b.entry.timestamp
                        \/ /\ a.entry.timestamp = b.entry.timestamp
                           /\ a.at < b.at
        sorted == SortSeq(Indexed(entries), Before)
    IN  [r \in 1..Len(entries) |-> sorted[r].entry]

\* entries.sort((a, b) => b[1].timestamp - a[1].timestamp): a stable sort,
\* newest first; entries of equal timestamp keep their relative order.
SortNewestFirst(entries) ==
    LET Before(a, b) == \/ a.entry.timestamp > b.entry.timestamp
                        \/ /\ a.entry.timestamp = b.entry.timestamp
                           /\ a.at < b.at
        sorted == SortSeq(Indexed(entries), Before)
    IN  [r \in 1..Len(entries) |-> sorted[r].entry]

\* A plausible slip: the cache written back without the trim.
CachePutUntrimmed(c, key, translation, time) ==
    CacheAssign(c, [key |-> key, translation |-> translation, timestamp |-> time])

\* A plausible slip: a lookup counts as a use and stamps the entry it finds.
CacheTouch(c, key, time) ==
    [i \in 1..Len(c) |-> IF c[i].key = key THEN [c[i] EXCEPT !.timestamp = time]
                         ELSE c[i]]

\* What a lookup (cache[cacheKey] on the parsed object, with no setItem after
\* it) leaves in localStorage: the cache as it was.
CacheAfterLookup(c, key, time) == c

\* A plausible slip: entries older than the write expire at the write.
CachePutExpiring(c, key, translation, time) ==
    LET fresh == SelectSeq(c, LAMBDA e : e.timestamp >= time)
        c1 == CacheAssign(fresh, [key |-> key, translation |-> translation,
                                  timestamp |-> time])
    IN  IF Len(c1) > CACHE_LIMIT
        THEN SubSeq(SortNewestFirst(c1), 1, CACHE_LIMIT)
        ELSE c1

\* The write of both writers: assign the entry stamped Date.now(), then, above
\* the cap, keep the first CACHE_LIMIT entries of the newest-first order.
CachePut(c, key, translation, time) ==
    LET c1 == CacheAssign(c, [key |-> key, translation |-> translation,
                              timestamp |-> time])
    IN  IF Len(c1) > CACHE_LIMIT
        THEN SubSeq(SortNewestFirst(c1), 1, CACHE_LIMIT)
        ELSE c1

(***************************************************************************)
(* Settings store: localStorage[TRANSLATION_SETTINGS_KEY], merged on read  *)
(* with DEFAULT_TRANSLATION_SETTINGS. temperature is held in tenths.       *)
(***************************************************************************)

DEFAULT_TRANSLATION_SETTINGS ==
    [enabled |-> FALSE,
     apiUrl |-> "https://api.openai.com/v1/chat/completions",
     apiKey |-> "",
     model |-> "gpt-3.5-turbo",
     temperature |-> 7,
     customPrompt |-> "",
     prefetch |-> FALSE]

\* A plausible slip: the spread order reversed, so that a default overrides
\* the stored field.
MergeSettingsDefaultsLast(defaults, rec) ==
    [f \in DOMAIN defaults \cup DOMAIN rec |->
        IF f \in DOMAIN defaults THEN defaults[f] ELSE rec[f]]

\* { ...defaults, ...JSON.parse(stored) }: a stored field overrides its default.
MergeSettings(defaults, rec) ==
    [f \in DOMAIN defaults |-> IF f \in DOMAIN rec THEN rec[f] ELSE defaults[f]]

\* getTranslationSettings(): stored is the set holding the persisted record,
\* empty when localStorage holds none; then the defaults object itself is
\* returned.
getTranslationSettings(stored, defaults) ==
    IF stored = {} THEN defaults
    ELSE MergeSettings(defaults, CHOOSE r \in stored : TRUE)

(***************************************************************************)
(* Streaming client: translateQuoteStreaming.  A response body is the      *)
(* sequence of its reads; a read is the sequence of the non-blank lines    *)
(* chunk.split('\n') yields; a line is held by what the loop makes of it.  *)
(***************************************************************************)

EN == <<"e", "n">>
FR == <<"f", "r">>

\* chunkSize of the cache replay.
CHUNK_SIZE == 3

\* `data: ` + JSON whose choices[0].delta.content is s.
Delta(s) == [kind |-> "delta", content |-> s]
\* `data: [DONE]`
Sentinel == [kind |-> "done", content |-> <<>>]

\* One invocation of onChunk, as the callback sees it.
Chunk(s, isComplete) == [chunk |-> s, isComplete |-> isComplete]

\* A call slot that no call has used yet.
IdleCall ==
    [pc |-> "idle", quoteText |-> <<>>, targetLang |-> <<>>, authorName |-> NULL,
     hasCallback |-> FALSE, path |-> "none", resolved |-> FALSE, result |-> NULL,
     cachedTranslation |-> <<>>, index |-> 0, body |-> <<>>,
     fullTranslation |-> <<>>, chunks |-> <<>>, requests |-> 0,
     cacheReads |-> 0,
     caller |-> "none",      \* who made the call: page, prefetch or display
     \* what the call met, recorded for the properties:
     sent |-> <<>>,          \* the content deltas the server sent before [DONE]
     skipped |-> 0,          \* data lines passed over: no parse or no content
     doneSeen |-> FALSE,     \* a [DONE] line was processed
     doneAt |-> <<>>,        \* fullTranslation when the first one was
     inFlight |-> {},        \* the calls still under way when this one began
     after |-> 0,            \* the call resolved by the step before this call
     sizeBefore |-> 0,       \* the cache's size before the write-through
     saw |-> [stored |-> FALSE, enabled |-> FALSE, apiKey |-> ""],
     found |-> {}]           \* the cached translations under the call's key

\* Plausible slips: one of the three conditions of the guard left out.
ShortCircuitIgnoresEnabled(settings, targetLang) ==
    settings.apiKey = "" \/ targetLang = EN

ShortCircuitIgnoresKey(settings, targetLang) ==
    ~settings.enabled \/ targetLang = EN

ShortCircuitIgnoresEnglish(settings, targetLang) ==
    ~settings.enabled \/ settings.apiKey = ""

\* !settings.enabled || !settings.apiKey || targetLang === 'en'
ShortCircuit(settings, targetLang) ==
    \/ ~settings.enabled
    \/ settings.apiKey = ""
    \/ targetLang = EN

\* A plausible slip: the fragment one character short of the step.
streamCachedShortSlice(call) ==
    IF call.index < Len(call.cachedTranslation)
    THEN [call EXCEPT
            !.chunks = Append(@, Chunk(Slice(call.cachedTranslation, call.index,
                                             call.index + CHUNK_SIZE - 1), FALSE)),
            !.index = @ + CHUNK_SIZE,
            !.pc = "replay"]
    ELSE [call EXCEPT !.chunks = Append(@, Chunk(<<>>, TRUE)), !.pc = "done"]

\* One run of the streamCached closure: the next fragment and a re-armed
\* timer, or the completion call.
streamCached(call) ==
    IF call.index < Len(call.cachedTranslation)
    THEN [call EXCEPT
            !.chunks = Append(@, Chunk(Slice(call.cachedTranslation, call.index,
                                             call.index + CHUNK_SIZE), FALSE)),
            !.index = @ + CHUNK_SIZE,
            !.pc = "replay"]
    ELSE [call EXCEPT !.chunks = Append(@, Chunk(<<>>, TRUE)), !.pc = "done"]

\* A plausible slip: the replay runs to its end before the string is returned.
CacheHitAfterReplay(call, cachedTranslation) ==
    LET runs == (Len(cachedTranslation) + CHUNK_SIZE - 1) \div CHUNK_SIZE
        fragments == [i \in 1..runs |->
                        Chunk(Slice(cachedTranslation, (i - 1) * CHUNK_SIZE,
                                    i * CHUNK_SIZE), FALSE)]
    IN  [call EXCEPT !.path = "hit", !.pc = "done", !.resolved = TRUE,
                     !.result = cachedTranslation,
                     !.cachedTranslation = cachedTranslation,
                     !.index = runs * CHUNK_SIZE,
                     !.chunks = IF call.hasCallback
                                THEN fragments \o <<Chunk(<<>>, TRUE)>> ELSE @]

\* The cache-hit branch: the first streamCached run is synchronous, and the
\* cached string is returned at once.
CacheHit(call, cachedTranslation) ==
    LET hit == [call EXCEPT !.path = "hit", !.pc = "done", !.resolved = TRUE,
                            !.result = cachedTranslation,
                            !.cachedTranslation = cachedTranslation]
    IN  IF call.hasCallback THEN streamCached(hit) ELSE hit

\* The cache-miss branch up to `await fetch(...)`: one request is issued.
CacheMiss(call) ==
    [call EXCEPT !.path = "net", !.pc = "fetching", !.requests = @ + 1]

\* The early return of the guard.
ReturnNullAtGuard(call) ==
    [call EXCEPT !.path = "short", !.pc = "done", !.resolved = TRUE,
                 !.result = NULL]

\* translateQuoteStreaming from its entry to its first await or return.
translateStart(call, settings, c) ==
    IF ShortCircuit(settings, call.targetLang)
    THEN ReturnNullAtGuard(call)
    ELSE LET key == cacheKey(call.quoteText, call.targetLang, call.authorName)
             cachedData == CacheGet(c, key)
             looked == [call EXCEPT !.cacheReads = @ + 1]
         IN  IF cachedData # {}
             THEN CacheHit(looked, (CHOOSE e \in cachedData : TRUE).translation)
             ELSE CacheMiss(looked)

\* `return null` of the !response.ok branch and of the catch block.
ReturnNull(call) ==
    [call EXCEPT !.pc = "done", !.resolved = TRUE, !.result = NULL]

\* A data line the loop passes over: its payload does not parse, or parses
\* with no content.
Skipped(line) ==
    \/ line.kind = "unparsed"
    \/ line.kind = "delta" /\ ~Truthy(line.content)

\* A plausible slip: JSON.parse outside the inner try, so that a payload that
\* does not parse reaches the outer catch and the call returns null.
RECURSIVE ProcessLinesParseErrorFatal(_, _)
ProcessLinesParseErrorFatal(lines, call) ==
    IF lines = <<>> THEN call
    ELSE LET line == Head(lines)
         IN  IF line.kind = "done"
             THEN [call EXCEPT !.chunks = IF call.hasCallback
                                          THEN Append(@, Chunk(<<>>, TRUE)) ELSE @,
                               !.doneSeen = TRUE,
                               !.doneAt = IF call.doneSeen THEN @
                                          ELSE call.fullTranslation]
             ELSE IF line.kind = "unparsed"
             THEN [call EXCEPT !.pc = "done", !.resolved = TRUE, !.result = NULL,
                               !.skipped = @ + 1]
             ELSE IF line.kind = "delta" /\ Truthy(line.content)
             THEN ProcessLinesParseErrorFatal(Tail(lines),
                    [call EXCEPT
                       !.fullTranslation = @ \o line.content,
                       !.chunks = IF call.hasCallback
                                  THEN Append(@, Chunk(line.content, FALSE)) ELSE @])
             ELSE ProcessLinesParseErrorFatal(Tail(lines), call)

\* The for loop over the lines of one read; the sentinel breaks out of it.
RECURSIVE ProcessLines(_, _)
ProcessLines(lines, call) ==
    IF lines = <<>> THEN call
    ELSE LET line == Head(lines)
         IN  IF line.kind = "done"
             THEN [call EXCEPT !.chunks = IF call.hasCallback
                                          THEN Append(@, Chunk(<<>>, TRUE)) ELSE @,
                               !.doneSeen = TRUE,
                               !.doneAt = IF call.doneSeen THEN @
                                          ELSE call.fullTranslation]
             ELSE IF line.kind = "delta" /\ Truthy(line.content)
             THEN ProcessLines(Tail(lines),
                    [call EXCEPT
                       !.fullTranslation = @ \o line.content,
                       !.chunks = IF call.hasCallback
                                  THEN Append(@, Chunk(line.content, FALSE)) ELSE @])
             ELSE ProcessLines(Tail(lines),
                    [call EXCEPT !.skipped = IF Skipped(line) THEN @ + 1 ELSE @])

\* A data line whose payload JSON.parse rejects.
Unparsed == [kind |-> "unparsed", content |-> <<>>]
\* A line that does not start with `data: `.
NotData == [kind |-> "other", content |-> <<>>]

\* The text of the response as the server writes it.  The JSON object of an
\* event, {"choices":[{"delta":{"content":s}}]}, is written `{` s `}`: a
\* payload parses when it begins with `{`, ends with `}` and holds neither
\* in between; `{}` is an object without a content delta.
DATA_PREFIX == <<"d", "a", "t", "a", ":", " ">>
DONE_MARK == <<"[", "D", "O", "N", "E", "]">>

\* The line of an event: a delta, the sentinel, or a payload cut short.
EventLine(e) ==
    IF e.kind = "done" THEN DATA_PREFIX \o DONE_MARK
    ELSE IF e.kind = "delta" THEN DATA_PREFIX \o <<"{">> \o e.content \o <<"}">>
    ELSE DATA_PREFIX \o <<"{">> \o e.content

\* The response text of a sequence of events, each line ended by "\n".
RECURSIVE Wire(_)
Wire(events) ==
    IF events = <<>> THEN <<>>
    ELSE EventLine(Head(events)) \o <<"\n">> \o Wire(Tail(events))

\* The reads of a response text that the transport cuts after the
\* characters at the places in cuts.
RECURSIVE SplitAt(_, _)
SplitAt(text, cuts) ==
    IF cuts = {} THEN <<text>>
    ELSE LET m == CHOOSE i \in cuts : \A j \in cuts : j <= i
         IN  SplitAt(SubSeq(text, 1, m), cuts \ {m})
                \o <<SubSeq(text, m + 1, Len(text))>>

\* chunk.split('\n')
RECURSIVE SplitLines(_)
SplitLines(chunk) ==
    LET i == IndexOf(chunk, "\n")
    IN  IF i = -1 THEN <<chunk>>
        ELSE <<Slice(chunk, 0, i)>> \o SplitLines(Slice(chunk, i + 1, Len(chunk)))

\* JSON.parse(data) and parsed.choices?.[0]?.delta?.content: the set holding
\* the content (empty for a missing one), or {} when the parse throws.
ParseData(data) ==
    IF /\ Len(data) >= 2
       /\ data[1] = "{"
       /\ data[Len(data)] = "}"
       /\ \A i \in 2..(Len(data) - 1) : data[i] \notin {"{", "}"}
    THEN {SubSeq(data, 2, Len(data) - 1)}
    ELSE {}

\* What the loop makes of one line.
ParseLine(line) ==
    IF StartsWith(line, DATA_PREFIX)
    THEN LET data == Slice(line, 6, Len(line))
         IN  IF data = DONE_MARK THEN Sentinel
             ELSE IF ParseData(data) # {}
             THEN Delta(CHOOSE content \in ParseData(data) : TRUE)
             ELSE Unparsed
    ELSE NotData

\* The lines of one read: split at "\n", blank lines dropped, each line
\* taken on its own.
LinesOfRead(chunk) ==
    LET lines == SelectSeq(SplitLines(chunk), LAMBDA line : Trim(line) # <<>>)
    IN  [i \in 1..Len(lines) |-> ParseLine(lines[i])]

\* The contents of the well-formed content deltas among events that come
\* before the first sentinel.
RECURSIVE SentDeltas(_)
SentDeltas(events) ==
    IF events = <<>> \/ Head(events).kind = "done" THEN <<>>
    ELSE IF Head(events).kind = "delta" /\ Truthy(Head(events).content)
    THEN <<Head(events).content>> \o SentDeltas(Tail(events))
    ELSE SentDeltas(Tail(events))

\* A plausible slip: the write-through keyed as saveTranslationToCache keys.
WriteThroughPlainKey(call, c, time) ==
    IF Truthy(call.fullTranslation)
    THEN CachePut(c, plainCacheKey(call.quoteText, call.targetLang),
                  call.fullTranslation, time)
    ELSE c

\* A plausible slip: the entry is added to the cache object as the call found
\* it empty at its lookup, not to the persisted cache read anew.
WriteThroughStale(call, c, time) ==
    IF Truthy(call.fullTranslation)
    THEN CachePut(<<>>, cacheKey(call.quoteText, call.targetLang, call.authorName),
                  call.fullTranslation, time)
    ELSE c

\* A plausible slip: the write-through without its guard.
WriteThroughUnguarded(call, c, time) ==
    CachePut(c, cacheKey(call.quoteText, call.targetLang, call.authorName),
             call.fullTranslation, time)

\* The cache after the write-through at the end of the stream.
WriteThrough(call, c, time) ==
    IF Truthy(call.fullTranslation)
    THEN CachePut(c, cacheKey(call.quoteText, call.targetLang, call.authorName),
                  call.fullTranslation, time)
    ELSE c

\* A plausible slip: an empty accumulated text is reported as a failure.
ReturnNullWhenEmpty(call) ==
    [call EXCEPT !.pc = "done", !.resolved = TRUE,
                 !.result = IF Truthy(call.fullTranslation)
                            THEN call.fullTranslation ELSE NULL]

\* The return after the read loop.
ReturnFullTranslation(call) ==
    [call EXCEPT !.pc = "done", !.resolved = TRUE, !.result = call.fullTranslation]

\* What a step of a call leaves: the call, and the persisted cache.
\* reader.read() yields done: the write-through and the return.
OnReadDone(call, c, time) ==
    [call |-> ReturnFullTranslation(call), cache |-> WriteThrough(call, c, time)]

\* The !response.ok branch: log, return null.
OnHttpError(call, c, time) == [call |-> ReturnNull(call), cache |-> c]

\* A plausible slip: what was received is saved before the error is reported.
OnTransportErrorSavesPartial(call, c, time) ==
    [call |-> ReturnNull(call), cache |-> WriteThrough(call, c, time)]

\* The catch block (fetch or reader.read() rejected): log, return null.
OnTransportError(call, c, time) == [call |-> ReturnNull(call), cache |-> c]

(***************************************************************************)
(* Display adapter: displayQuoteTranslation and the callback it passes.    *)
(***************************************************************************)

\* The translation block before any display: hidden, no text.
BlankDom ==
    [blockDisplay |-> "none", quoteText |-> <<>>, authorText |-> <<>>,
     fullTranslation |-> <<>>, completed |-> FALSE]

\* A plausible slip: the block is shown with the texts of the last display
\* left in it.
displayStartKeepsText(d) ==
    [d EXCEPT !.blockDisplay = "block", !.fullTranslation = <<>>,
              !.completed = FALSE]

\* displayQuoteTranslation up to the call of translateQuoteStreaming: both
\* texts cleared, the block shown, the closure's buffer empty.
displayStart(d) ==
    [d EXCEPT !.quoteText = <<>>, !.blockDisplay = "block", !.authorText = <<>>,
              !.fullTranslation = <<>>, !.completed = FALSE]

\* The older callback of scripts/quote-translation.js: the fragment appended
\* to the one text element, with no split.
displayOnChunkAppend(d, chunk, isComplete) ==
    IF Truthy(chunk)
    THEN [d EXCEPT !.fullTranslation = @ \o chunk, !.quoteText = @ \o chunk,
                   !.completed = isComplete]
    ELSE [d EXCEPT !.completed = @ \/ isComplete]

\* The callback: a truthy fragment is added to the buffer and both texts are
\* rendered anew from it, split at its first "|" once it holds one.
displayOnChunk(d, chunk, isComplete) ==
    LET full == IF Truthy(chunk) THEN d.fullTranslation \o chunk
                ELSE d.fullTranslation
        separatorIndex == IndexOf(full, "|")
        shown ==
            IF ~Truthy(chunk) THEN d
            ELSE IF separatorIndex = -1
            THEN [d EXCEPT !.fullTranslation = full, !.quoteText = full]
            ELSE [d EXCEPT
                    !.fullTranslation = full,
                    !.quoteText = Trim(Slice(full, 0, separatorIndex)),
                    !.authorText = Trim(Slice(full, separatorIndex + 1, Len(full)))]
    IN  [shown EXCEPT !.completed = @ \/ isComplete]

\* The buffer of the callback given to a call: all the truthy fragments the
\* call has passed to it, concatenated.
Delivered(call) == Concat([i \in 1..Len(call.chunks) |-> call.chunks[i].chunk])

\* The callback run on the onChunk calls chs, in order.
RECURSIVE RenderChunks(_, _)
RenderChunks(d, chs) ==
    IF chs = <<>> THEN d
    ELSE RenderChunks(displayOnChunk(d, Head(chs).chunk, Head(chs).isComplete),
                      Tail(chs))

\* The translation block after a step that took a call of the display
\* adapter from before to after: its callback ran on the new onChunk calls.
Render(d, before, after) ==
    RenderChunks([d EXCEPT !.fullTranslation = Delivered(before)],
                 SubSeq(after.chunks, Len(before.chunks) + 1, Len(after.chunks)))

\* No stream feeds the callback.
NoFeed ==
    [pc |-> "idle", quote |-> <<>>, author |-> <<>>, hasSeparator |-> FALSE,
     pending |-> <<>>, delivered |-> 0]

\* The stream of a translation: the translated quote alone, or the
\* translated quote, "|" and the translated author.
FeedOf(quote, author, hasSeparator) ==
    [pc |-> "streaming", quote |-> quote, author |-> author,
     hasSeparator |-> hasSeparator,
     pending |-> IF hasSeparator THEN quote \o <<"|">> \o author ELSE quote,
     delivered |-> 0]

(***************************************************************************)
(* Connectivity check: testTranslationAPI.  A result is held by its        *)
(* success flag and its code; an HTTP status is held as its decimal text.  *)
(***************************************************************************)

\* No connectivity check was made.
NoTest == [pc |-> "idle", requests |-> 0, result |-> {}, override |-> FALSE,
           apiKey |-> "", outcome |-> "none"]

TestResult(success, code) == [success |-> success, code |-> code]

\* A plausible slip: the key is not looked at before the request.
testStartWithoutKeyCheck(customSettings, settings) ==
    LET used == IF customSettings # {} THEN CHOOSE r \in customSettings : TRUE
                ELSE settings
    IN  [pc |-> "fetching", requests |-> 1, result |-> {},
         override |-> customSettings # {}, apiKey |-> used.apiKey,
              outcome |-> "none"]

\* testTranslationAPI(customSettings) up to `await fetch(...)` or its early
\* return; customSettings is {} for null, settings what a read returns.
testStart(customSettings, settings) ==
    LET used == IF customSettings # {} THEN CHOOSE r \in customSettings : TRUE
                ELSE settings
    IN  IF used.apiKey = ""
        THEN [pc |-> "done", requests |-> 0,
              result |-> {TestResult(FALSE, "NO_API_KEY")},
              override |-> customSettings # {}, apiKey |-> used.apiKey,
              outcome |-> "none"]
        ELSE [pc |-> "fetching", requests |-> 1, result |-> {},
              override |-> customSettings # {}, apiKey |-> used.apiKey,
              outcome |-> "none"]

\* The !response.ok branch: the status is the code.
testOnHttpError(t, status) ==
    [t EXCEPT !.pc = "done", !.result = {TestResult(FALSE, status)}]

\* A plausible slip: any parsed body of an ok response counts as success.
testOnBodyAnyIsSuccess(t, choices) ==
    [t EXCEPT !.pc = "done", !.result = {TestResult(TRUE, "200")}]

\* The parsed body of an ok response: success when it holds a choice.
testOnBody(t, choices) ==
    [t EXCEPT !.pc = "done",
              !.result = IF choices > 0 THEN {TestResult(TRUE, "200")}
                         ELSE {TestResult(FALSE, "INVALID_RESPONSE")}]

\* The catch block: fetch or response.json() rejected.
testOnRejected(t) ==
    [t EXCEPT !.pc = "done", !.result = {TestResult(FALSE, "NETWORK_ERROR")}]

(***************************************************************************)
(* Prefetch: the timer of the DOMContentLoaded handler and                 *)
(* prefetchNextQuoteTranslation.                                           *)
(***************************************************************************)

\* The timer is set at page load when both flags are set in the settings
\* the handler read.
PrefetchAtLoad(settings) ==
    [pc |-> IF settings.enabled /\ settings.prefetch THEN "armed" ELSE "unarmed",
     saw |-> [enabled |-> FALSE, prefetch |-> FALSE],
     call |-> 0,
     lang |-> <<>>,          \* the current language it read, once it has
     log |-> "none",         \* what it logged last
     settled |-> "pending"]  \* its promise: pending, resolved or rejected

\* A plausible slip: the prefetch flag is not looked at again when the
\* function runs.
PrefetchDisabledIgnoresFlag(settings) == ~settings.enabled

\* !settings.enabled || !settings.prefetch
PrefetchDisabled(settings) == ~settings.enabled \/ ~settings.prefetch

\* The function returns with what it logged.
prefetchReturns(p, log) ==
    [p EXCEPT !.pc = "done", !.log = log, !.settled = "resolved"]

\* A plausible slip: the await outside the try, so that a rejection of
\* getQuotesForLanguage rejects the promise of the prefetch.
prefetchOnQuotesRejectedUncaught(p) ==
    [p EXCEPT !.pc = "done", !.settled = "rejected"]

\* getQuotesForLanguage rejects: the catch logs the error.
prefetchOnQuotesRejected(p) == prefetchReturns(p, "error")

\* translateQuoteStreaming has resolved to translation: a truthy one is
\* logged as completed, any other as failed.
prefetchOnTranslation(p, translation) ==
    prefetchReturns(p, IF Truthy(translation) THEN "completed" ELSE "failed")

(***************************************************************************)
(* Bounds and inputs of the model                                          *)
(***************************************************************************)

\* translateQuoteStreaming calls per page (each slot is used once).
MaxCalls == 2
\* Date.now() runs from 0 to MaxClock.
MaxClock == 1

Texts == {<<"a">>}
Authors == {NULL, <<"b">>}
Langs == {EN, FR}

\* Response bodies the server may send.
Bodies ==
    { << <<Delta(<<"x", "y", "z">>), Delta(<<"w">>)>>, <<Sentinel>> >>,
      << <<Delta(<<"x">>)>> >>,
      << <<Sentinel>> >> }

\* What the user may have typed into the API key field at a save.
ApiKeyInputs == {"", "k"}

\* A record a previous page of the extension persisted.
SavedBefore == [DEFAULT_TRANSLATION_SETTINGS EXCEPT !.enabled = TRUE, !.apiKey = "k"]

\* A cache an earlier page left in localStorage: two entries written by
\* saveTranslationToCache.
SeededCache ==
    CachePut(CachePut(<<>>, plainCacheKey(<<"a">>, EN), <<"h", "i">>, 0),
             plainCacheKey(<<"a">>, FR), <<"h", "o", "l", "a">>, 0)

(***************************************************************************)
(* State                                                                   *)
(***************************************************************************)

VARIABLES
    now,              \* Date.now()
    cache,            \* localStorage[TRANSLATION_CACHE_KEY]
    storedSettings,   \* localStorage[TRANSLATION_SETTINGS_KEY]: {} or {record}
    defaultSettings,  \* the DEFAULT_TRANSLATION_SETTINGS object
    pageSettings,     \* the settings object the DOMContentLoaded handler holds
    pageIsDefault,    \* whether that object is DEFAULT_TRANSLATION_SETTINGS itself
    calls,            \* the translateQuoteStreaming calls of this page
    lastResolved,     \* the call whose promise the last step resolved, else 0
    lastWrite,        \* the cache write the last step made: {} or {write}
    dom,              \* the translation block: its display and its two texts
    feed,             \* the stream that feeds displayQuoteTranslation's callback
    lookup,           \* what the last step's getTranslationFromCache returned
    test,             \* the testTranslationAPI call of the page
    prefetch          \* the prefetch timer and prefetchNextQuoteTranslation

vars == <<now, cache, storedSettings, defaultSettings, pageSettings,
          pageIsDefault, calls, lastResolved, lastWrite, dom, feed,
          lookup, test, prefetch>>

CallIds == 1..MaxCalls

\* The settings as a read at this moment returns them.
CurrentSettings == getTranslationSettings(storedSettings, defaultSettings)

Init ==
    /\ now = 0
    /\ cache \in {<<>>, SeededCache}
    /\ storedSettings \in {{}, {SavedBefore}}
    /\ defaultSettings = DEFAULT_TRANSLATION_SETTINGS
    /\ pageSettings = getTranslationSettings(storedSettings, DEFAULT_TRANSLATION_SETTINGS)
    /\ pageIsDefault = (storedSettings = {})
    /\ calls = [c \in CallIds |-> IdleCall]
    /\ lastResolved = 0
    /\ lastWrite = {}
    /\ dom = BlankDom
    /\ feed = NoFeed
    /\ lookup = {}
    /\ test = NoTest
    /\ prefetch = PrefetchAtLoad(pageSettings)

(***************************************************************************)
(* Actions                                                                 *)
(***************************************************************************)

\* The record of a cache write: the entry, whether its key was new, and the
\* size of the cache before it.
Written(c, key, translation, time) ==
    [key |-> key, translation |-> translation, timestamp |-> time,
     isNew |-> key \notin CacheKeys(c), sizeBefore |-> Len(c)]

settingsVars == <<storedSettings, defaultSettings, pageSettings, pageIsDefault>>

displayVars == <<dom, feed>>

toolVars == <<test, prefetch>>

\* A call's promise is resolved by this step.
Resolves(c, call) == IF call.resolved /\ ~calls[c].resolved THEN c ELSE 0

\* A step of call c that leaves r.
CallStep(c, r) ==
    /\ calls' = [calls EXCEPT ![c] = r.call]
    /\ cache' = r.cache

\* translateQuoteStreaming(quoteText, targetLang, onChunk, authorName) is
\* called by caller and runs to its first await or return.
StartCall(c, caller, quoteText, targetLang, hasCallback, authorName) ==
    /\ calls[c].pc = "idle"
    /\ \A d \in CallIds : d < c => calls[d].pc # "idle"
    /\ LET key == cacheKey(quoteText, targetLang, authorName)
           args == [IdleCall EXCEPT
                      !.quoteText = quoteText,
                      !.targetLang = targetLang,
                      !.hasCallback = hasCallback,
                      !.authorName = authorName,
                      !.caller = caller,
                      !.inFlight = {d \in CallIds :
                                      calls[d].pc \in {"fetching", "reading",
                                                       "replay"}},
                      !.after = lastResolved,
                      !.saw = [stored |-> storedSettings # {},
                               enabled |-> CurrentSettings.enabled,
                               apiKey |-> CurrentSettings.apiKey],
                      !.found = {e.translation : e \in CacheGet(cache, key)}]
           call == translateStart(args, CurrentSettings, cache)
       IN  /\ calls' = [calls EXCEPT ![c] = call]
           /\ lastResolved' = Resolves(c, call)
           /\ cache' = IF call.cacheReads > 0
                       THEN CacheAfterLookup(cache, key, now) ELSE cache
    /\ lastWrite' = {}
    /\ lookup' = {}
    /\ UNCHANGED <<now, settingsVars>>

\* The onChunk calls of this step reach the display callback when the call
\* is the display adapter's.
Shows(c) ==
    /\ dom' = IF calls[c].caller = "display"
              THEN Render(dom, calls[c], calls'[c]) ELSE dom
    /\ feed' = feed

\* A call of translateQuoteStreaming by the page.
Translate(c, quoteText, targetLang, hasCallback, authorName) ==
    /\ StartCall(c, "page", quoteText, targetLang, hasCallback, authorName)
    /\ UNCHANGED <<displayVars, toolVars>>

\* fetch rejects.
FetchRejected(c) ==
    /\ calls[c].pc = "fetching"
    /\ CallStep(c, OnTransportError(calls[c], cache, now))
    /\ lastResolved' = c
    /\ lastWrite' = {}
    /\ lookup' = {}
    /\ UNCHANGED <<now, settingsVars, displayVars, toolVars>>

\* The response is not ok.
FetchHttpError(c) ==
    /\ calls[c].pc = "fetching"
    /\ CallStep(c, OnHttpError(calls[c], cache, now))
    /\ lastResolved' = c
    /\ lastWrite' = {}
    /\ lookup' = {}
    /\ UNCHANGED <<now, settingsVars, displayVars, toolVars>>

\* The response is ok: the reader is taken and the first read awaited.
FetchOk(c, body) ==
    /\ calls[c].pc = "fetching"
    /\ calls' = [calls EXCEPT ![c] = [@ EXCEPT !.pc = "reading", !.body = body]]
    /\ lastResolved' = 0
    /\ lastWrite' = {}
    /\ lookup' = {}
    /\ UNCHANGED <<now, cache, settingsVars, displayVars, toolVars>>

\* reader.read() yields a chunk: its lines are processed, the next read awaited.
ReadChunk(c) ==
    /\ calls[c].pc = "reading"
    /\ calls[c].body # <<>>
    /\ calls' = [calls EXCEPT ![c] =
                   ProcessLines(Head(calls[c].body),
                                [calls[c] EXCEPT !.body = Tail(@)])]
    /\ Shows(c)
    /\ lastResolved' = 0
    /\ lastWrite' = {}
    /\ lookup' = {}
    /\ UNCHANGED <<now, cache, settingsVars, toolVars>>

\* reader.read() yields done: the write-through and the return.
ReadDone(c) ==
    /\ calls[c].pc = "reading"
    /\ calls[c].body = <<>>
    /\ CallStep(c, LET r == OnReadDone(calls[c], cache, now)
                   IN  [r EXCEPT !.call.sizeBefore = Len(cache)])
    /\ lastResolved' = c
    /\ lastWrite' = IF Truthy(calls[c].fullTranslation)
                    THEN {Written(cache, cacheKey(calls[c].quoteText,
                                     calls[c].targetLang, calls[c].authorName),
                                  calls[c].fullTranslation, now)}
                    ELSE {}
    /\ lookup' = {}
    /\ UNCHANGED <<now, settingsVars, displayVars, toolVars>>

\* reader.read() rejects in the middle of the stream.
ReadRejected(c) ==
    /\ calls[c].pc = "reading"
    /\ CallStep(c, OnTransportError(calls[c], cache, now))
    /\ lastResolved' = c
    /\ lastWrite' = {}
    /\ lookup' = {}
    /\ UNCHANGED <<now, settingsVars, displayVars, toolVars>>

\* setTimeout(streamCached, 30) fires.
ReplayTimer(c) ==
    /\ calls[c].pc = "replay"
    /\ calls' = [calls EXCEPT ![c] = streamCached(calls[c])]
    /\ Shows(c)
    /\ lastResolved' = 0
    /\ lastWrite' = {}
    /\ lookup' = {}
    /\ UNCHANGED <<now, cache, settingsVars, toolVars>>

\* getTranslationFromCache(quoteText, targetLang): the translation under the
\* key, or undefined.
GetTranslationFromCache(quoteText, targetLang) ==
    LET key == plainCacheKey(quoteText, targetLang)
    IN  /\ lookup' = {[key |-> key,
                       result |-> {e.translation : e \in CacheGet(cache, key)}]}
        /\ cache' = CacheAfterLookup(cache, key, now)
        /\ lastResolved' = 0
        /\ lastWrite' = {}
        /\ UNCHANGED <<now, calls, settingsVars, displayVars, toolVars>>

\* saveTranslationToCache(quoteText, targetLang, translation)
SaveTranslationToCache(quoteText, targetLang, translation) ==
    /\ cache' = CachePut(cache, plainCacheKey(quoteText, targetLang), translation, now)
    /\ lastResolved' = 0
    /\ lastWrite' = {Written(cache, plainCacheKey(quoteText, targetLang),
                             translation, now)}
    /\ lookup' = {}
    /\ UNCHANGED <<now, calls, settingsVars, displayVars, toolVars>>

\* A millisecond passes.
Tick ==
    /\ now < MaxClock
    /\ now' = now + 1
    /\ lastResolved' = 0
    /\ lastWrite' = {}
    /\ lookup' = {}
    /\ UNCHANGED <<cache, calls, settingsVars, displayVars, toolVars>>

\* The settings object of the page after a handler changed it to s: the
\* handler writes through the reference it holds.
PageWrites(s) ==
    /\ pageSettings' = s
    /\ defaultSettings' = IF pageIsDefault THEN s ELSE defaultSettings
    /\ storedSettings' = {s}
    /\ UNCHANGED pageIsDefault

\* The change handler of the enable checkbox.
EnabledChange ==
    /\ PageWrites([pageSettings EXCEPT !.enabled = ~@])
    /\ lastResolved' = 0
    /\ lastWrite' = {}
    /\ lookup' = {}
    /\ UNCHANGED <<now, cache, calls, displayVars, toolVars>>

\* The click handler of the save button, with what the input fields hold:
\* an empty URL or model field takes the field of
\* DEFAULT_TRANSLATION_SETTINGS as it is at the click.
SaveFields(apiUrlInput, apiKeyInput, modelInput, prefetchChecked) ==
    /\ PageWrites([pageSettings EXCEPT
                     !.apiUrl = IF apiUrlInput = "" THEN defaultSettings.apiUrl
                                ELSE apiUrlInput,
                     !.apiKey = apiKeyInput,
                     !.model = IF modelInput = "" THEN defaultSettings.model
                               ELSE modelInput,
                     !.temperature = IF @ = 0 THEN 7 ELSE @,
                     !.customPrompt = @,
                     !.prefetch = prefetchChecked])
    /\ lastResolved' = 0
    /\ lastWrite' = {}
    /\ lookup' = {}
    /\ UNCHANGED <<now, cache, calls, displayVars, toolVars>>

\* The click handler of the save button when the URL and model fields hold
\* what the page put into them.
SaveClick(apiKeyInput, prefetchChecked) ==
    SaveFields(pageSettings.apiUrl, apiKeyInput, pageSettings.model,
               prefetchChecked)

Next ==
    \/ \E c \in CallIds, t \in Texts, l \in Langs, cb \in BOOLEAN, a \in Authors :
          Translate(c, t, l, cb, a)
    \/ \E c \in CallIds : FetchRejected(c)
    \/ \E c \in CallIds : FetchHttpError(c)
    \/ \E c \in CallIds, b \in Bodies : FetchOk(c, b)
    \/ \E c \in CallIds : ReadChunk(c)
    \/ \E c \in CallIds : ReadDone(c)
    \/ \E c \in CallIds : ReadRejected(c)
    \/ \E c \in CallIds : ReplayTimer(c)
    \/ EnabledChange
    \/ \E k \in ApiKeyInputs : SaveClick(k, pageSettings.prefetch)

Spec == Init /\ [][Next]_vars

(***************************************************************************)
(* The cache at its cap.  localStorage outlives the page, so a page starts *)
(* with the cache earlier pages filled: Prefill(n, tied) is the cache that *)
(* n <= CACHE_LIMIT writes of distinct filler quotes leave (each appends   *)
(* its entry).  Time 0 is the page load; entries of earlier pages carry    *)
(* timestamps <= 0.                                                        *)
(***************************************************************************)

Digits == <<"0", "1", "2", "3", "4", "5", "6", "7", "8", "9">>

\* The i-th filler quote: "q" and three decimal digits.
FillerText(i) ==
    <<"q", Digits[((i \div 100) % 10) + 1], Digits[((i \div 10) % 10) + 1],
      Digits[(i % 10) + 1]>>

\* Timestamps of the fillers: all equal to the page load, or spread over
\* five earlier milliseconds in an order unrelated to insertion.
FillerTime(i, tied) == IF tied THEN 0 ELSE 0 - ((i * 7) % 5)

Prefill(n, tied) ==
    [i \in 1..n |-> [key |-> plainCacheKey(FillerText(i), FR),
                     translation |-> <<"t">>,
                     timestamp |-> FillerTime(i, tied)]]

CacheTexts == {<<"a">>, FillerText(1)}

\* Sentinel-only and one-delta bodies.
CacheBodies == { << <<Delta(<<"x">>)>> >>, << <<Sentinel>> >> }

InitCache ==
    /\ now = 0
    /\ cache \in {<<>>, Prefill(CACHE_LIMIT - 1, FALSE), Prefill(CACHE_LIMIT, TRUE)}
    /\ storedSettings = {SavedBefore}
    /\ defaultSettings = DEFAULT_TRANSLATION_SETTINGS
    /\ pageSettings = SavedBefore
    /\ pageIsDefault = FALSE
    /\ calls = [c \in CallIds |-> IdleCall]
    /\ lastResolved = 0
    /\ lastWrite = {}
    /\ dom = BlankDom
    /\ feed = NoFeed
    /\ lookup = {}
    /\ test = NoTest
    /\ prefetch = PrefetchAtLoad(pageSettings)

NextCache ==
    \/ \E c \in CallIds, a \in Authors : Translate(c, <<"a">>, FR, FALSE, a)
    \/ \E c \in CallIds, b \in CacheBodies : FetchOk(c, b)
    \/ \E c \in CallIds : FetchHttpError(c)
    \/ \E c \in CallIds : ReadChunk(c)
    \/ \E c \in CallIds : ReadDone(c)
    \/ \E c \in CallIds : ReadRejected(c)
    \/ \E t \in CacheTexts : SaveTranslationToCache(t, FR, <<"h", "o", "l", "a">>)
    \/ \E t \in CacheTexts : GetTranslationFromCache(t, FR)
    \/ Tick

SpecCache == InitCache /\ [][NextCache]_vars

(***************************************************************************)
(* The display callback under every chunking of a stream.  The streaming   *)
(* client is taken as what it is to the callback: a source of truthy       *)
(* fragments in order, then at most one completion.                        *)
(***************************************************************************)

\* Translated quotes (without the delimiter) and translated authors.
DisplayQuotes == {<<"a">>, <<" ", "a", " ">>, <<>>}

DisplayAuthors == {<<"b">>, <<" ", "b">>, <<"b", "|", "c">>, <<>>}

clientVars == <<now, cache, calls, lastResolved, lastWrite, lookup>>

\* displayQuoteTranslation with translation off or the language English:
\* the block is hidden and nothing streams.
DisplayHidden(targetLang) ==
    /\ feed.pc # "streaming"
    /\ ~CurrentSettings.enabled \/ targetLang = EN
    /\ dom' = [dom EXCEPT !.blockDisplay = "none"]
    /\ UNCHANGED <<feed, clientVars, settingsVars, toolVars>>

\* displayQuoteTranslation otherwise: the block is cleared and shown, and
\* the stream of the translation starts.
DisplayQuote(targetLang, quote, author, hasSeparator) ==
    /\ feed.pc # "streaming"
    /\ CurrentSettings.enabled /\ targetLang # EN
    /\ dom' = displayStart(dom)
    /\ feed' = FeedOf(quote, author, hasSeparator)
    /\ UNCHANGED <<clientVars, settingsVars, toolVars>>

\* onChunk(chunk, false) with the next k characters of the stream.
FeedChunk(k) ==
    /\ feed.pc = "streaming"
    /\ k \in 1..Len(feed.pending)
    /\ dom' = displayOnChunk(dom, SubSeq(feed.pending, 1, k), FALSE)
    /\ feed' = [feed EXCEPT !.pending = SubSeq(@, k + 1, Len(@)),
                            !.delivered = @ + 1]
    /\ UNCHANGED <<clientVars, settingsVars, toolVars>>

\* onChunk('', true) once the whole stream was delivered.
FeedComplete ==
    /\ feed.pc = "streaming"
    /\ feed.pending = <<>>
    /\ dom' = displayOnChunk(dom, <<>>, TRUE)
    /\ feed' = [feed EXCEPT !.pc = "complete"]
    /\ UNCHANGED <<clientVars, settingsVars, toolVars>>

\* The stream ends with no completion: a failed read, or a body that ends
\* without the sentinel.
FeedStops ==
    /\ feed.pc = "streaming"
    /\ feed' = [feed EXCEPT !.pc = "stopped"]
    /\ UNCHANGED <<dom, clientVars, settingsVars, toolVars>>

InitDisplay ==
    /\ now = 0
    /\ cache = <<>>
    /\ storedSettings \in {{}, {SavedBefore}}
    /\ defaultSettings = DEFAULT_TRANSLATION_SETTINGS
    /\ pageSettings = getTranslationSettings(storedSettings, defaultSettings)
    /\ pageIsDefault = (storedSettings = {})
    /\ calls = [c \in CallIds |-> IdleCall]
    /\ lastResolved = 0
    /\ lastWrite = {}
    /\ dom = BlankDom
    /\ feed = NoFeed
    /\ lookup = {}
    /\ test = NoTest
    /\ prefetch = PrefetchAtLoad(pageSettings)

NextDisplay ==
    \/ \E l \in Langs : DisplayHidden(l)
    \/ \E l \in Langs, q \in DisplayQuotes, a \in DisplayAuthors :
          DisplayQuote(l, q, a, TRUE)
    \/ \E l \in Langs, q \in DisplayQuotes : DisplayQuote(l, q, <<>>, FALSE)
    \/ \E k \in 1..Len(feed.pending) : FeedChunk(k)
    \/ FeedComplete
    \/ FeedStops
    \/ EnabledChange

SpecDisplay == InitDisplay /\ [][NextDisplay]_vars

(***************************************************************************)
(* Settings persisted by an earlier version of the extension, which knew   *)
(* fewer fields: any subset of the fields may be present at page load.     *)
(***************************************************************************)

FieldNames == DOMAIN DEFAULT_TRANSLATION_SETTINGS

\* A record whose every field differs from its default.
OlderRecord ==
    [enabled |-> TRUE, apiUrl |-> "https://example.test/v1", apiKey |-> "k",
     model |-> "m", temperature |-> 3, customPrompt |-> "p", prefetch |-> TRUE]

PartialRecords == {[f \in F |-> OlderRecord[f]] : F \in SUBSET FieldNames}

\* The DOMContentLoaded handler of a new page: a new script context, with
\* DEFAULT_TRANSLATION_SETTINGS as written, reads the persisted settings.
PageLoad ==
    /\ defaultSettings' = DEFAULT_TRANSLATION_SETTINGS
    /\ pageSettings' = getTranslationSettings(storedSettings,
                                              DEFAULT_TRANSLATION_SETTINGS)
    /\ pageIsDefault' = (storedSettings = {})
    /\ calls' = [c \in CallIds |-> IdleCall]
    /\ lastResolved' = 0
    /\ lastWrite' = {}
    /\ lookup' = {}
    /\ dom' = BlankDom
    /\ feed' = NoFeed
    /\ test' = NoTest
    /\ prefetch' = PrefetchAtLoad(pageSettings')
    /\ UNCHANGED <<now, cache, storedSettings>>

InitSettings ==
    /\ now = 0
    /\ cache = <<>>
    /\ storedSettings \in {{}} \cup {{r} : r \in PartialRecords}
    /\ defaultSettings = DEFAULT_TRANSLATION_SETTINGS
    /\ pageSettings = getTranslationSettings(storedSettings, defaultSettings)
    /\ pageIsDefault = (storedSettings = {})
    /\ calls = [c \in CallIds |-> IdleCall]
    /\ lastResolved = 0
    /\ lastWrite = {}
    /\ dom = BlankDom
    /\ feed = NoFeed
    /\ lookup = {}
    /\ test = NoTest
    /\ prefetch = PrefetchAtLoad(pageSettings)

\* What the user may have typed into the URL and the model fields.
ApiUrlInputs == {"", "https://example.test/v1"}
ModelInputs == {"", "m"}

NextSettings ==
    \/ PageLoad
    \/ EnabledChange
    \/ \E k \in ApiKeyInputs, p \in BOOLEAN : SaveClick(k, p)
    \/ \E u \in ApiUrlInputs, k \in ApiKeyInputs, m \in ModelInputs :
          SaveFields(u, k, m, pageSettings.prefetch)

SpecSettings == InitSettings /\ [][NextSettings]_vars

(***************************************************************************)
(* The connectivity check.  test.outcome records what the server did.      *)
(***************************************************************************)

\* Completion choices in the body of an ok response: 0..MaxChoices.
MaxChoices == 1

HttpStatuses == {"401", "429", "500"}

\* The argument of testTranslationAPI: null, or the object the test button
\* builds from the input fields.
TestOverrides ==
    {{}} \cup {{[apiUrl |-> DEFAULT_TRANSLATION_SETTINGS.apiUrl, apiKey |-> k,
                 model |-> DEFAULT_TRANSLATION_SETTINGS.model, temperature |-> 7]} :
                  k \in ApiKeyInputs}

testFrame ==
    /\ lastResolved' = 0
    /\ lastWrite' = {}
    /\ lookup' = {}
    /\ UNCHANGED <<now, cache, calls, settingsVars, displayVars, prefetch>>

\* A plausible slip: the values typed for the test are saved before it.
TestTranslationAPISaves(customSettings) ==
    /\ test.pc # "fetching"
    /\ test' = testStart(customSettings, CurrentSettings)
    /\ storedSettings' =
          IF customSettings = {} THEN storedSettings
          ELSE {[CurrentSettings EXCEPT
                   !.apiKey = (CHOOSE r \in customSettings : TRUE).apiKey]}
    /\ lastResolved' = 0
    /\ lastWrite' = {}
    /\ lookup' = {}
    /\ UNCHANGED <<now, cache, calls, defaultSettings, pageSettings,
                   pageIsDefault, displayVars, prefetch>>

\* testTranslationAPI(customSettings) is called; the test button is disabled
\* while its call runs.
TestTranslationAPI(customSettings) ==
    /\ test.pc # "fetching"
    /\ test' = testStart(customSettings, CurrentSettings)
    /\ testFrame

\* The response is not ok.
TestHttpError(status) ==
    /\ test.pc = "fetching"
    /\ test' = [testOnHttpError(test, status) EXCEPT !.outcome = "status"]
    /\ testFrame

\* The response is ok and its body parses.
TestBody(choices) ==
    /\ test.pc = "fetching"
    /\ test' = [testOnBody(test, choices) EXCEPT
                  !.outcome = IF choices > 0 THEN "choices" ELSE "nochoices"]
    /\ testFrame

\* fetch rejects, or response.json() rejects.
TestRejected ==
    /\ test.pc = "fetching"
    /\ test' = [testOnRejected(test) EXCEPT !.outcome = "rejected"]
    /\ testFrame

InitTest ==
    /\ now = 0
    /\ cache = <<>>
    /\ storedSettings \in {{}, {SavedBefore}}
    /\ defaultSettings = DEFAULT_TRANSLATION_SETTINGS
    /\ pageSettings = getTranslationSettings(storedSettings, defaultSettings)
    /\ pageIsDefault = (storedSettings = {})
    /\ calls = [c \in CallIds |-> IdleCall]
    /\ lastResolved = 0
    /\ lastWrite = {}
    /\ dom = BlankDom
    /\ feed = NoFeed
    /\ lookup = {}
    /\ test = NoTest
    /\ prefetch = PrefetchAtLoad(pageSettings)

NextTest ==
    \/ \E o \in TestOverrides : TestTranslationAPI(o)
    \/ \E st \in HttpStatuses : TestHttpError(st)
    \/ \E n \in 0..MaxChoices : TestBody(n)
    \/ TestRejected
    \/ EnabledChange
    \/ \E k \in ApiKeyInputs : SaveClick(k, pageSettings.prefetch)
    \/ \E c \in CallIds : Translate(c, <<"a">>, FR, FALSE, NULL)
    \/ \E c \in CallIds : FetchHttpError(c)

SpecTest == InitTest /\ [][NextTest]_vars

(***************************************************************************)
(* Prefetch.  The timer set at page load runs prefetchNextQuoteTranslation, *)
(* which reads the settings, awaits the quotes and translates one of them. *)
(***************************************************************************)

\* A persisted record with both flags set.
SavedPrefetch == [SavedBefore EXCEPT !.prefetch = TRUE]

prefetchFrame ==
    /\ lastResolved' = 0
    /\ lastWrite' = {}
    /\ lookup' = {}
    /\ UNCHANGED <<now, cache, calls, settingsVars, displayVars, test>>

\* The timer fires: prefetchNextQuoteTranslation up to its early return or
\* to `await getQuotesForLanguage(false)`.
PrefetchTimer ==
    /\ prefetch.pc = "armed"
    /\ LET read == [prefetch EXCEPT
                       !.saw = [enabled |-> CurrentSettings.enabled,
                                prefetch |-> CurrentSettings.prefetch]]
       IN  prefetch' = IF PrefetchDisabled(CurrentSettings)
                       THEN prefetchReturns(read, "disabled")
                       ELSE [read EXCEPT !.pc = "quotes"]
    /\ prefetchFrame

\* The quotes arrive and the language is not English: the quote chosen is
\* translated with no callback.
PrefetchQuotes(c, quoteText, authorName, currentLang) ==
    /\ prefetch.pc = "quotes"
    /\ currentLang # EN
    /\ StartCall(c, "prefetch", quoteText, currentLang, FALSE, authorName)
    /\ prefetch' = [prefetch EXCEPT !.pc = "translating", !.call = c,
                                    !.lang = currentLang]
    /\ UNCHANGED <<displayVars, test>>

\* The quotes arrive and the language is English: the skip is logged and
\* nothing is translated.
PrefetchEnglish ==
    /\ prefetch.pc = "quotes"
    /\ prefetch' = prefetchReturns([prefetch EXCEPT !.lang = EN], "english")
    /\ prefetchFrame

\* No quotes arrive: nothing is translated.
PrefetchNothing ==
    /\ prefetch.pc = "quotes"
    /\ prefetch' = prefetchReturns(prefetch, prefetch.log)
    /\ prefetchFrame

\* getQuotesForLanguage rejects.
PrefetchQuotesRejected ==
    /\ prefetch.pc = "quotes"
    /\ prefetch' = prefetchOnQuotesRejected(prefetch)
    /\ prefetchFrame

\* The awaited translateQuoteStreaming call has resolved: the outcome is
\* logged and the function returns.
PrefetchTranslated ==
    /\ prefetch.pc = "translating"
    /\ calls[prefetch.call].resolved
    /\ prefetch' = prefetchOnTranslation(prefetch, calls[prefetch.call].result)
    /\ prefetchFrame

InitPrefetch ==
    /\ now = 0
    /\ cache = <<>>
    /\ storedSettings \in {{}, {SavedBefore}, {SavedPrefetch}}
    /\ defaultSettings = DEFAULT_TRANSLATION_SETTINGS
    /\ pageSettings = getTranslationSettings(storedSettings, defaultSettings)
    /\ pageIsDefault = (storedSettings = {})
    /\ calls = [c \in CallIds |-> IdleCall]
    /\ lastResolved = 0
    /\ lastWrite = {}
    /\ dom = BlankDom
    /\ feed = NoFeed
    /\ lookup = {}
    /\ test = NoTest
    /\ prefetch = PrefetchAtLoad(pageSettings)

NextPrefetch ==
    \/ PrefetchTimer
    \/ \E c \in CallIds, t \in Texts, a \in Authors : PrefetchQuotes(c, t, a, FR)
    \/ PrefetchEnglish
    \/ PrefetchNothing
    \/ PrefetchQuotesRejected
    \/ PrefetchTranslated
    \/ \E c \in CallIds : FetchHttpError(c)
    \/ \E c \in CallIds, b \in Bodies : FetchOk(c, b)
    \/ \E c \in CallIds : ReadChunk(c)
    \/ \E c \in CallIds : ReadDone(c)
    \/ EnabledChange
    \/ \E k \in ApiKeyInputs, p \in BOOLEAN : SaveClick(k, p)

SpecPrefetch == InitPrefetch /\ [][NextPrefetch]_vars

(***************************************************************************)
(* The display adapter on the streaming client: displayQuoteTranslation    *)
(* passes its callback to translateQuoteStreaming.                         *)
(***************************************************************************)

\* displayQuoteTranslation with translation on and a language other than
\* English: the block is cleared and shown, then translateQuoteStreaming
\* runs to its first await or return with the display callback.
DisplayTranslation(c, quoteText, targetLang, authorName) ==
    /\ CurrentSettings.enabled /\ targetLang # EN
    /\ StartCall(c, "display", quoteText, targetLang, TRUE, authorName)
    /\ dom' = Render(displayStart(dom), IdleCall, calls'[c])
    /\ UNCHANGED <<feed, toolVars>>

NextPage ==
    \/ \E l \in Langs : DisplayHidden(l)
    \/ \E c \in CallIds, t \in Texts, l \in Langs, a \in Authors :
          DisplayTranslation(c, t, l, a)
    \/ \E c \in CallIds : FetchRejected(c)
    \/ \E c \in CallIds : FetchHttpError(c)
    \/ \E c \in CallIds, b \in Bodies : FetchOk(c, b)
    \/ \E c \in CallIds : ReadChunk(c)
    \/ \E c \in CallIds : ReadDone(c)
    \/ \E c \in CallIds : ReadRejected(c)
    \/ \E c \in CallIds : ReplayTimer(c)
    \/ EnabledChange
    \/ \E k \in ApiKeyInputs : SaveClick(k, pageSettings.prefetch)

SpecPage == Init /\ [][NextPage]_vars

(***************************************************************************)
(* Response streams: what the server may send around the [DONE] line.      *)
(***************************************************************************)

StreamBodies ==
    { << <<Delta(<<"x">>)>>, <<Sentinel>> >>,
      << <<Delta(<<"x">>), Sentinel, Delta(<<"y">>)>> >>,
      << <<Delta(<<"x">>), Sentinel>>, <<Delta(<<"z">>)>> >>,
      << <<Sentinel>>, <<Sentinel>> >>,
      << <<Delta(<<"x">>)>> >> }

InitStream ==
    /\ now = 0
    /\ cache = <<>>
    /\ storedSettings = {SavedBefore}
    /\ defaultSettings = DEFAULT_TRANSLATION_SETTINGS
    /\ pageSettings = SavedBefore
    /\ pageIsDefault = FALSE
    /\ calls = [c \in CallIds |-> IdleCall]
    /\ lastResolved = 0
    /\ lastWrite = {}
    /\ dom = BlankDom
    /\ feed = NoFeed
    /\ lookup = {}
    /\ test = NoTest
    /\ prefetch = PrefetchAtLoad(pageSettings)

NextStream ==
    \/ \E c \in CallIds, cb \in BOOLEAN, a \in Authors :
          Translate(c, <<"a">>, FR, cb, a)
    \/ \E c \in CallIds, b \in StreamBodies : FetchOk(c, b)
    \/ \E c \in CallIds : ReadChunk(c)
    \/ \E c \in CallIds : ReadDone(c)
    \/ \E c \in CallIds : ReadRejected(c)

SpecStream == InitStream /\ [][NextStream]_vars

(***************************************************************************)
(* The response as text on the wire: the transport hands it to the reader  *)
(* in reads cut at any character.                                          *)
(***************************************************************************)

\* Cuts the transport makes in one response.
MaxCuts == 1

\* A payload the server cut short.
Malformed == [kind |-> "malformed", content |-> <<"x">>]

\* Event sequences a server sends: deltas and the sentinel, a stream with no
\* sentinel, and streams with a payload that does not parse or holds no
\* content.
WireEvents ==
    { <<Delta(<<"x">>), Delta(<<"y">>), Sentinel>>,
      <<Delta(<<"x">>)>>,
      <<Malformed, Delta(<<"y">>), Sentinel>>,
      <<Delta(<<>>), Delta(<<"y">>), Sentinel>> }

\* The sets of at most n places between two characters of a text.
RECURSIVE CutsUpTo(_, _)
CutsUpTo(text, n) ==
    IF n = 0 THEN {{}}
    ELSE LET fewer == CutsUpTo(text, n - 1)
         IN  fewer \cup {S \cup {i} : S \in fewer, i \in 1..(Len(text) - 1)}

CutSets(text) == CutsUpTo(text, MaxCuts)

\* The response is ok and its text reaches the reader in the reads the cuts
\* make of it.
FetchOkSplit(c, events, cuts) ==
    /\ calls[c].pc = "fetching"
    /\ LET reads == SplitAt(Wire(events), cuts)
       IN  calls' = [calls EXCEPT ![c] =
                       [@ EXCEPT !.pc = "reading",
                                 !.body = [k \in 1..Len(reads) |->
                                              LinesOfRead(reads[k])],
                                 !.sent = SentDeltas(events)]]
    /\ lastResolved' = 0
    /\ lastWrite' = {}
    /\ lookup' = {}
    /\ UNCHANGED <<now, cache, settingsVars, displayVars, toolVars>>

NextWire ==
    \/ \E c \in CallIds, cb \in BOOLEAN :
          /\ \A d \in CallIds : calls[d].pc \in {"idle", "done"}
          /\ Translate(c, <<"a">>, FR, cb, NULL)
    \/ \E c \in CallIds, ev \in WireEvents :
          \E cuts \in CutSets(Wire(ev)) : FetchOkSplit(c, ev, cuts)
    \/ \E c \in CallIds : ReadChunk(c)
    \/ \E c \in CallIds : ReadDone(c)
    \/ \E c \in CallIds : ReadRejected(c)

SpecWire == InitStream /\ [][NextWire]_vars

(***************************************************************************)
(* Both writers of the cache, from an empty cache: the write-through and   *)
(* saveTranslationToCache, which stores the translation it is given.       *)
(***************************************************************************)

\* Translations saveTranslationToCache may be given.
SavedTexts == {<<>>, <<"h", "o", "l", "a">>}

NextWriters ==
    \/ \E c \in CallIds, cb \in BOOLEAN, a \in Authors :
          Translate(c, <<"a">>, FR, cb, a)
    \/ \E c \in CallIds, b \in Bodies : FetchOk(c, b)
    \/ \E c \in CallIds : ReadChunk(c)
    \/ \E c \in CallIds : ReadDone(c)
    \/ \E c \in CallIds : ReplayTimer(c)
    \/ \E tr \in SavedTexts : SaveTranslationToCache(<<"a">>, FR, tr)

SpecWriters == InitStream /\ [][NextWriters]_vars

(***************************************************************************)
(* Cache keys of calls that differ in text or author.                      *)
(***************************************************************************)

KeyTexts == {<<"a">>, <<"a", "|", "b">>}

KeyAuthors == {NULL, <<"b">>, <<"c">>}

KeyBodies == { << <<Delta(<<"x">>)>>, <<Sentinel>> >> }

InitKeys ==
    /\ now = 0
    /\ cache = <<>>
    /\ storedSettings = {SavedBefore}
    /\ defaultSettings = DEFAULT_TRANSLATION_SETTINGS
    /\ pageSettings = getTranslationSettings(storedSettings, defaultSettings)
    /\ pageIsDefault = FALSE
    /\ calls = [c \in CallIds |-> IdleCall]
    /\ lastResolved = 0
    /\ lastWrite = {}
    /\ dom = BlankDom
    /\ feed = NoFeed
    /\ lookup = {}
    /\ test = NoTest
    /\ prefetch = PrefetchAtLoad(pageSettings)

NextKeys ==
    \/ \E c \in CallIds, t \in KeyTexts, a \in KeyAuthors :
          Translate(c, t, FR, FALSE, a)
    \/ \E c \in CallIds, b \in KeyBodies : FetchOk(c, b)
    \/ \E c \in CallIds : ReadChunk(c)
    \/ \E c \in CallIds : ReadDone(c)

SpecKeys == InitKeys /\ [][NextKeys]_vars

(***************************************************************************)
(* Properties                                                              *)
(***************************************************************************)

CacheEntries(c) == {c[i] : i \in 1..Len(c)}

\* Calls c and p were made with the same text, language and author.
SameRequest(c, p) ==
    /\ calls[c].quoteText = calls[p].quoteText
    /\ calls[c].targetLang = calls[p].targetLang
    /\ calls[c].authorName = calls[p].authorName

\* C1: the persisted translation cache holds at most 100 entries, whatever
\* writes translateQuoteStreaming and saveTranslationToCache have made.
C1_CacheWithinLimit == Len(cache) <= CACHE_LIMIT

\* A write-through of a new key has just met a full cache.
C1_Witness ==
    /\ lastResolved # 0
    /\ \E w \in lastWrite : w.isNew /\ w.sizeBefore = CACHE_LIMIT
    /\ Len(cache) = CACHE_LIMIT

\* C2: an insertion that takes the cache beyond the cap leaves exactly 100
\* entries, all of them from the entries before plus the new one, and no
\* entry dropped is newer than an entry kept.
C2_TrimKeepsNewest ==
    [][\A w \in lastWrite' :
         (w.isNew /\ w.sizeBefore >= CACHE_LIMIT) =>
            LET new == [key |-> w.key, translation |-> w.translation,
                        timestamp |-> w.timestamp]
                all == CacheEntries(cache) \cup {new}
                kept == CacheEntries(cache')
            IN  /\ Len(cache') = CACHE_LIMIT
                /\ Cardinality(kept) = CACHE_LIMIT
                /\ kept \subseteq all
                /\ \A e \in all \ kept : \A r \in kept :
                      e.timestamp <= r.timestamp]_vars

\* An insertion beyond the cap has dropped an older entry and kept the new one.
C2_Witness ==
    \E w \in lastWrite :
       /\ w.isNew
       /\ w.sizeBefore = CACHE_LIMIT
       /\ w.key \in CacheKeys(cache)
       /\ \E e \in CacheEntries(cache) : e.timestamp < w.timestamp

Fragments(chs) == [i \in 1..Len(chs) |-> chs[i].chunk]

\* C4: on a cache hit with a callback the call resolves to the cached string
\* with no request; onChunk gets non-complete, non-empty fragments that
\* concatenate to a prefix of that string while the replay runs and to the
\* whole string once it has ended, and then one completion call with an empty
\* fragment, which is the last call.
C4_CacheHitReplay ==
    \A c \in CallIds :
       (calls[c].path = "hit" /\ calls[c].hasCallback) =>
          LET chs == calls[c].chunks
              done == calls[c].pc = "done"
              frags == IF done THEN SubSeq(chs, 1, Len(chs) - 1) ELSE chs
          IN  /\ calls[c].resolved
              /\ calls[c].found = {calls[c].result}
              /\ calls[c].requests = 0
              /\ \A i \in 1..Len(frags) :
                    ~frags[i].isComplete /\ frags[i].chunk # <<>>
              /\ StartsWith(calls[c].result, Concat(Fragments(frags)))
              /\ done => /\ Len(chs) >= 1
                         /\ chs[Len(chs)] = Chunk(<<>>, TRUE)
                         /\ Concat(Fragments(frags)) = calls[c].result

\* A replay of a cached string of more than one fragment has ended.
C4_Witness ==
    \E c \in CallIds :
       /\ calls[c].path = "hit"
       /\ calls[c].hasCallback
       /\ calls[c].pc = "done"
       /\ Len(calls[c].result) > CHUNK_SIZE
       /\ Len(calls[c].chunks) = 3

\* What a call that the guard turned away has done: nothing.
TurnedAway(c) ==
    /\ calls[c].pc = "done"
    /\ calls[c].resolved
    /\ calls[c].result = NULL
    /\ calls[c].requests = 0
    /\ calls[c].cacheReads = 0
    /\ calls[c].chunks = <<>>

\* C5: a call made while the settings read gives enabled = false, or while
\* no settings record is persisted, returns null at once with no request.
C5_DisabledReturnsNull ==
    \A c \in CallIds :
       (calls[c].pc # "idle" /\ (~calls[c].saw.enabled \/ ~calls[c].saw.stored))
          => TurnedAway(c)

\* A disabled call that had a key, a non-English target, a callback and a
\* cached translation under its key.
C5_Witness ==
    \E c \in CallIds :
       /\ calls[c].pc # "idle"
       /\ ~calls[c].saw.enabled
       /\ calls[c].saw.apiKey # ""
       /\ calls[c].targetLang # EN
       /\ calls[c].hasCallback
       /\ calls[c].found # {}

\* C6: a call with targetLang "en" never reads the cache, issues no request,
\* never invokes onChunk and returns null.
C6_EnglishShortCircuits ==
    \A c \in CallIds :
       (calls[c].pc # "idle" /\ calls[c].targetLang = EN) => TurnedAway(c)

\* An English call with translation enabled, a key, a callback and a cached
\* entry under its key.
C6_Witness ==
    \E c \in CallIds :
       /\ calls[c].pc # "idle"
       /\ calls[c].targetLang = EN
       /\ calls[c].saw.enabled
       /\ calls[c].saw.apiKey # ""
       /\ calls[c].hasCallback
       /\ calls[c].found # {}

\* C7: a call made while no API key is configured returns null at once with
\* no request.
C7_NoKeyReturnsNull ==
    \A c \in CallIds :
       (calls[c].pc # "idle" /\ calls[c].saw.apiKey = "") => TurnedAway(c)

\* A call without a key, with translation enabled and a cached translation
\* under its key.
C7_Witness ==
    \E c \in CallIds :
       /\ calls[c].pc # "idle"
       /\ calls[c].saw.apiKey = ""
       /\ calls[c].saw.enabled
       /\ calls[c].targetLang # EN
       /\ calls[c].found # {}

\* A step in which call c meets an HTTP failure or a transport error.
ErrorStep(c) == FetchRejected(c) \/ FetchHttpError(c) \/ ReadRejected(c)

\* C8: a step in which a call meets a non-2xx response or a transport error
\* resolves it to null with one request made and leaves the persisted cache
\* as it was; a call that has returned makes no further request.
C8_ErrorReturnsNull ==
    [][\A c \in CallIds :
         /\ ErrorStep(c) =>
               /\ calls'[c].pc = "done"
               /\ calls'[c].resolved
               /\ calls'[c].result = NULL
               /\ calls'[c].requests = 1
               /\ cache' = cache
         /\ calls[c].pc = "done" => calls'[c].requests = calls[c].requests]_vars

\* A stream broke after a part of the translation had been received: the
\* call returned null and nothing is cached under its key.
C8_Witness ==
    \E c \in CallIds :
       /\ calls[c].path = "net"
       /\ calls[c].resolved
       /\ calls[c].result = NULL
       /\ calls[c].fullTranslation # <<>>
       /\ calls[c].found = {}
       /\ CacheGet(cache, cacheKey(calls[c].quoteText, calls[c].targetLang,
                                   calls[c].authorName)) = {}

C10_KeysUniquePerTriple ==
    /\ \A c, p \in CallIds :
          (calls[c].pc # "idle" /\ calls[p].pc # "idle" /\ ~SameRequest(c, p))
             => cacheKey(calls[c].quoteText, calls[c].targetLang, calls[c].authorName)
                  # cacheKey(calls[p].quoteText, calls[p].targetLang, calls[p].authorName)
    /\ \A c \in CallIds :
          calls[c].path = "hit"
             => \E p \in CallIds :
                   /\ p # c
                   /\ calls[p].path = "net"
                   /\ calls[p].resolved
                   /\ SameRequest(c, p)

\* C11: an entry of the cache stays as it is through every step that does not
\* write its key, and its key stays in the cache through every step, whatever
\* the time; the one exception is a write of a new key into a cache that
\* already holds 100 entries, which trims the cache.
C11_RemovedOnlyByEviction ==
    [][\/ cache' = cache
       \/ \E w \in lastWrite' : w.isNew /\ w.sizeBefore >= CACHE_LIMIT
       \/ /\ CacheKeys(cache) \subseteq CacheKeys(cache')
          /\ {e \in CacheEntries(cache) : \A w \in lastWrite' : w.key # e.key}
                \subseteq CacheEntries(cache')]_vars

C11_Witness ==
    /\ now = MaxClock
    /\ Len(cache) = CACHE_LIMIT
    /\ \E e \in CacheEntries(cache) : e.timestamp < now - 3
    /\ \E e \in CacheEntries(cache) : e.timestamp = now
    /\ \E c \in CallIds : calls[c].path = "net" /\ Truthy(calls[c].result)

\* C12: a step in which translateQuoteStreaming looks its key up in the cache
\* (hit or miss), and a call of getTranslationFromCache, leave the persisted
\* cache as it was, the timestamp of the entry found included.
C12_LookupLeavesCache ==
    [][(\/ lookup' # {}
        \/ \E c \in CallIds : calls[c].pc = "idle" /\ calls'[c].cacheReads > 0)
          => cache' = cache]_vars

C12_Witness ==
    /\ now = MaxClock
    /\ \E l \in lookup : l.result = {<<"h", "o", "l", "a">>}
    /\ \E c \in CallIds :
          /\ calls[c].path = "hit"
          /\ \E e \in CacheGet(cache, cacheKey(calls[c].quoteText,
                                   calls[c].targetLang, calls[c].authorName)) :
                e.timestamp < now

\* C13: a call with a callback that hits a cached string of more than 3
\* characters has returned that string when only the first fragment of 3
\* characters was delivered; every later fragment and the completion call of
\* a cache hit are delivered by a timer step, after the return.
C13_HitReturnsBeforeReplayEnds ==
    [][\A c \in CallIds :
          /\ (/\ calls[c].pc = "idle"
              /\ calls'[c].path = "hit"
              /\ calls'[c].hasCallback
              /\ Len(calls'[c].cachedTranslation) > CHUNK_SIZE)
                => /\ calls'[c].resolved
                   /\ calls'[c].result = calls'[c].cachedTranslation
                   /\ calls'[c].pc = "replay"
                   /\ calls'[c].chunks =
                         <<Chunk(Slice(calls'[c].cachedTranslation, 0, CHUNK_SIZE),
                                 FALSE)>>
          /\ (calls[c].path = "hit" /\ calls'[c].chunks # calls[c].chunks)
                => /\ calls[c].resolved
                   /\ ReplayTimer(c)
                   /\ Len(calls'[c].chunks) = Len(calls[c].chunks) + 1]_vars

C13_Witness ==
    \E c \in CallIds :
       /\ calls[c].path = "hit"
       /\ calls[c].hasCallback
       /\ lastResolved = c
       /\ calls[c].result = <<"h", "o", "l", "a">>
       /\ calls[c].chunks = <<Chunk(<<"h", "o", "l">>, FALSE)>>
       /\ calls[c].pc = "replay"

\* The defaults of the settings as the feature's documentation gives them.
DocumentedDefaults ==
    [enabled |-> FALSE, apiUrl |-> "https://api.openai.com/v1/chat/completions",
     apiKey |-> "", model |-> "gpt-3.5-turbo", customPrompt |-> "",
     prefetch |-> FALSE]

\* read is the merge of the persisted record over the defaults.
MergedRead(read, stored) ==
    \A r \in stored :
       /\ \A f \in DOMAIN r : read[f] = r[f]
       /\ \A f \in DOMAIN DocumentedDefaults \ DOMAIN r :
             read[f] = DocumentedDefaults[f]

C15_TestWithoutKey ==
    (test.pc # "idle" /\ test.apiKey = "")
       => /\ test.pc = "done"
          /\ test.requests = 0
          /\ test.result # {}
          /\ \A r \in test.result : ~r.success

C15_Witness ==
    /\ test.pc = "done"
    /\ test.override
    /\ test.apiKey = ""
    /\ CurrentSettings.apiKey = "k"
    /\ test.result = {TestResult(FALSE, "NO_API_KEY")}

\* C16 as stated: a finished check has a result; it is a success only for an
\* ok response with a choice, and every failure after a request carries an
\* HTTP status or the network-error code.
C16_FailureCarriesStatusOrNetworkError ==
    test.pc = "done"
       => /\ test.result # {}
          /\ \A r \in test.result :
                /\ r.success <=> test.outcome = "choices"
                /\ (~r.success /\ test.requests > 0)
                      => r.code \in HttpStatuses \cup {"NETWORK_ERROR"}

\* C16: a finished check has a result (the promise resolves); the result is
\* a success only for an ok response with a choice; after a non-ok response
\* it carries the status, after a rejected fetch or body NETWORK_ERROR, and
\* after an ok response without a choice INVALID_RESPONSE.
C16_TestOutcomeClassified ==
    test.pc = "done"
       => /\ test.result # {}
          /\ \A r \in test.result :
                /\ r.success <=> test.outcome = "choices"
                /\ test.outcome = "choices" => r.code = "200"
                /\ test.outcome = "status" => r.code \in HttpStatuses
                /\ test.outcome = "rejected" => r.code = "NETWORK_ERROR"
                /\ test.outcome = "nochoices" => r.code = "INVALID_RESPONSE"
                /\ test.outcome = "none" => test.requests = 0

C16_Witness ==
    /\ test.pc = "done"
    /\ test.requests = 1
    /\ test.outcome = "nochoices"
    /\ test.result = {TestResult(FALSE, "INVALID_RESPONSE")}

\* C17: when prefetchNextQuoteTranslation has run and the settings it read
\* had the enabled flag or the prefetch flag off, it has started no
\* translation: no call is the prefetch's, so it made no request and no
\* cache write, although both flags were set when the timer was set.
C17_PrefetchNeedsBothFlags ==
    (prefetch.pc \in {"quotes", "done"}
       /\ ~(prefetch.saw.enabled /\ prefetch.saw.prefetch))
       => /\ prefetch.pc = "done"
          /\ prefetch.call = 0
          /\ \A c \in CallIds : calls[c].caller # "prefetch"
          /\ cache = <<>>

C17_Witness ==
    /\ prefetch.pc = "done"
    /\ prefetch.saw.enabled
    /\ ~prefetch.saw.prefetch
    /\ prefetch.call = 0
    /\ CurrentSettings.apiKey = "k"

\* displayQuoteTranslation is called with language l in this step.
DisplayStep(l) ==
    \/ DisplayHidden(l)
    \/ \E c \in CallIds, t \in Texts, a \in Authors : DisplayTranslation(c, t, l, a)

\* C18: a call of displayQuoteTranslation made while translation is off or
\* for English hides the block and starts no translation (no call, so no
\* cache read and no request); any other call leaves the block visible and
\* showing only what the new translation has delivered, on texts cleared of
\* the previous display.
C18_DisplayHidesOrClears ==
    [][\A l \in Langs :
          DisplayStep(l) =>
             IF ~CurrentSettings.enabled \/ l = EN
             THEN /\ dom'.blockDisplay = "none"
                  /\ calls' = calls
                  /\ cache' = cache
             ELSE \E c \in CallIds :
                     /\ calls[c].pc = "idle"
                     /\ calls'[c].caller = "display"
                     /\ dom'.blockDisplay = "block"
                     /\ dom'.quoteText = Delivered(calls'[c])
                     /\ dom'.authorText = <<>>]_vars

C18_Witness ==
    \E c, p \in CallIds :
       /\ calls[p].caller = "display"
       /\ calls[p].pc = "done"
       /\ calls[p].result = <<"h", "o", "l", "a">>
       /\ calls[c].caller = "display"
       /\ calls[c].pc = "fetching"
       /\ dom.blockDisplay = "block"
       /\ dom.quoteText = <<>>

\* Calls c and p ran at the same time on the network for the same text,
\* language and author, no entry being cached for them, and both streams
\* have ended.
RacedToEnd(c, p) ==
    /\ c # p
    /\ p \in calls[c].inFlight
    /\ SameRequest(c, p)
    /\ calls[c].path = "net" /\ calls[p].path = "net"
    /\ calls[c].found = {} /\ calls[p].found = {}
    /\ calls[c].resolved /\ calls[p].resolved
    /\ calls[c].result # NULL /\ calls[p].result # NULL

\* The translations cached under the key of call c.
CachedFor(c) ==
    {e.translation : e \in CacheGet(cache, cacheKey(calls[c].quoteText,
                                      calls[c].targetLang, calls[c].authorName))}

C20_NothingAfterSentinel ==
    \A c \in CallIds :
       calls[c].doneSeen =>
          /\ calls[c].fullTranslation = calls[c].doneAt
          /\ \A i, j \in 1..Len(calls[c].chunks) :
                (calls[c].chunks[i].isComplete /\ i < j)
                   => ~Truthy(calls[c].chunks[j].chunk)

\* C21: however the transport cuts the response into reads, a call on the
\* network path that resolves to a string resolves to the concatenation of
\* the content deltas the server sent before the sentinel, and its callback
\* got each of them once, in order.
C21_ResultIsWhatWasSent ==
    \A c \in CallIds :
       (calls[c].path = "net" /\ calls[c].resolved /\ calls[c].result # NULL)
          => /\ calls[c].result = Concat(calls[c].sent)
             /\ calls[c].hasCallback =>
                   SelectSeq(Fragments(calls[c].chunks), Truthy) = calls[c].sent

\* The lines of a read without those the loop passes over.
WithoutSkipped(lines) == SelectSeq(lines, LAMBDA line : ~Skipped(line))

\* C22: a data line whose payload does not parse, or parses with no content,
\* is passed over: the read that holds it leaves the call awaiting the next
\* read, with the text and the onChunk calls that the same read without
\* such lines would leave, so the deltas after it are still taken.
C22_BadPayloadSkipped ==
    [][\A c \in CallIds :
          ReadChunk(c) =>
             LET lines == Head(calls[c].body)
                 rest == [calls[c] EXCEPT !.body = Tail(@)]
                 clean == ProcessLines(WithoutSkipped(lines), rest)
             IN  /\ calls'[c].pc = "reading"
                 /\ ~calls'[c].resolved
                 /\ calls'[c].fullTranslation = clean.fullTranslation
                 /\ calls'[c].chunks = clean.chunks]_vars

C22_Witness ==
    \E c \in CallIds :
       /\ calls[c].skipped > 0
       /\ calls[c].hasCallback
       /\ calls[c].resolved
       /\ calls[c].result = <<"y">>
       /\ calls[c].chunks = <<Chunk(<<"y">>, FALSE), Chunk(<<>>, TRUE)>>

\* Call c has just resolved on the network path to a non-empty string, and
\* no other call is on the network.
ResolvedAlone(c) ==
    /\ lastResolved = c
    /\ calls[c].path = "net"
    /\ Truthy(calls[c].result)
    /\ \A d \in CallIds \ {c} : calls[d].pc \notin {"fetching", "reading"}

\* C23: when a call on the network path, with no other call writing, has
\* resolved to a non-empty string, the cache holds that string under the
\* call's lookup key, and the string is the concatenation of the fragments
\* its callback got.
C23_ResultCachedUnderLookupKey ==
    \A c \in CallIds :
       ResolvedAlone(c) =>
          /\ CachedFor(c) = {calls[c].result}
          /\ calls[c].hasCallback =>
                Concat(Fragments(calls[c].chunks)) = calls[c].result

\* Call c is the last call the display adapter made.
LastDisplay(c) ==
    /\ calls[c].caller = "display"
    /\ \A d \in CallIds : d > c => calls[d].caller # "display"

\* C24: when the call of the last displayQuoteTranslation has resolved to
\* null (no key, a response that is not ok, or a rejected fetch or read), the
\* quote text and the author text of the translation block are empty.
C24_NullShowsNothing ==
    \A c \in CallIds :
       (LastDisplay(c) /\ calls[c].resolved /\ calls[c].result = NULL)
          => dom.quoteText = <<>> /\ dom.authorText = <<>>

\* The translation block as the callback of call c alone leaves it.
ShownBy(c) == RenderChunks(displayStart(BlankDom), calls[c].chunks)

\* displayQuoteTranslation was called for a, and for b while the stream or
\* the replay of a was still under way.
DisplayedOver(a, b) ==
    /\ calls[a].caller = "display"
    /\ calls[b].caller = "display"
    /\ a \in calls[b].inFlight

\* C25: when a second display began while the first was still delivering,
\* no step of the first call changes the block after that, and once both
\* calls have ended the block shows the texts of the second call alone.
C25_LaterDisplayWins ==
    /\ [](\A a, b \in CallIds :
            (/\ DisplayedOver(a, b)
             /\ LastDisplay(b)
             /\ calls[a].pc = "done"
             /\ calls[b].pc = "done" /\ calls[b].result # NULL)
               => /\ dom.quoteText = ShownBy(b).quoteText
                  /\ dom.authorText = ShownBy(b).authorText)
    /\ [][\A a, b \in CallIds :
            (DisplayedOver(a, b) /\ (ReadChunk(a) \/ ReplayTimer(a)))
               => /\ dom'.quoteText = dom.quoteText
                  /\ dom'.authorText = dom.authorText]_vars

\* C26: right after a cache write (the write-through or
\* saveTranslationToCache) the cache holds the written translation under the
\* written key, whatever the size of the cache and the timestamps in it.
C26_WrittenEntryPresent ==
    \A w \in lastWrite :
       {e.translation : e \in CacheGet(cache, w.key)} = {w.translation}

\* Calls c and p ran at the same time on the network for different keys,
\* neither key being cached, both have resolved to a non-empty string, and
\* each wrote into a cache of fewer than CACHE_LIMIT entries.
RacedApart(c, p) ==
    /\ c # p
    /\ p \in calls[c].inFlight
    /\ cacheKey(calls[c].quoteText, calls[c].targetLang, calls[c].authorName)
          # cacheKey(calls[p].quoteText, calls[p].targetLang, calls[p].authorName)
    /\ calls[c].path = "net" /\ calls[p].path = "net"
    /\ calls[c].found = {} /\ calls[p].found = {}
    /\ calls[c].resolved /\ calls[p].resolved
    /\ Truthy(calls[c].result) /\ Truthy(calls[p].result)
    /\ calls[c].sizeBefore < CACHE_LIMIT /\ calls[p].sizeBefore < CACHE_LIMIT

\* The cache holds under the key of call c the non-empty result of a call
\* for the request of c.
KeptFor(c) ==
    \E o \in CallIds :
       /\ o = c \/ SameRequest(o, c)
       /\ Truthy(calls[o].result)
       /\ CachedFor(c) = {calls[o].result}

\* C27: when two such calls have both ended, the cache holds an entry under
\* the key of each, in whichever order their steps were taken: the result of
\* that call, unless a further call for the same request wrote over it.
C27_NoLostWrite ==
    \A c, p \in CallIds :
       RacedApart(c, p) =>
          /\ KeptFor(c) /\ KeptFor(p)
          /\ (\A o \in CallIds \ {c, p} : calls[o].path # "net")
                => /\ CachedFor(c) = {calls[c].result}
                   /\ CachedFor(p) = {calls[p].result}

C27_Witness ==
    \E c, p \in CallIds :
       /\ RacedApart(c, p)
       /\ lastResolved = p
       /\ calls[c].result = <<"x">>
       /\ calls[p].result = <<"x", "y", "z", "w">>
       /\ CachedFor(c) = {<<"x">>}
       /\ CachedFor(p) = {<<"x", "y", "z", "w">>}

\* C28: a call that was given a callback and has ended with a result other
\* than null has called it with isComplete true once, as its last call:
\* after the replay of a cache hit, and on the network path whether the
\* stream held one sentinel, none or several.
C28_CompletionOnceAndLast ==
    \A c \in CallIds :
       (calls[c].hasCallback /\ calls[c].pc = "done" /\ calls[c].result # NULL)
          => LET chs == calls[c].chunks
             IN  /\ Cardinality({i \in 1..Len(chs) : chs[i].isComplete}) = 1
                 /\ chs[Len(chs)].isComplete

\* C29: whatever was toggled and saved in the settings page, the object
\* DEFAULT_TRANSLATION_SETTINGS holds its values as written; so a save with
\* an empty URL or model field persists the documented URL or model, and a
\* read that finds no persisted record has enabled false.
C29_DefaultsKeepInitialValues ==
    /\ [](defaultSettings = DEFAULT_TRANSLATION_SETTINGS)
    /\ [](storedSettings = {} => ~CurrentSettings.enabled)
    /\ [][\A u \in ApiUrlInputs, k \in ApiKeyInputs, m \in ModelInputs :
            SaveFields(u, k, m, pageSettings.prefetch) =>
               \A r \in storedSettings' :
                  /\ u = "" => r.apiUrl = DEFAULT_TRANSLATION_SETTINGS.apiUrl
                  /\ m = "" => r.model = DEFAULT_TRANSLATION_SETTINGS.model]_vars

\* C30 as stated: a call never resolves to the empty string.
C30_NeverEmptyString ==
    \A c \in CallIds :
       calls[c].resolved => (calls[c].result = NULL \/ calls[c].result # <<>>)

\* C30: a call turned away by the guard resolves to null, a cache hit to the
\* cached string, and a call on the network path to null or to the text it
\* accumulated; when the stream of an ok response ends, the call resolves to
\* that text also when it is empty, and then nothing is cached.
C30_EmptyStreamGivesEmptyString ==
    /\ [](\A c \in CallIds :
            calls[c].resolved =>
               /\ calls[c].path = "short" => calls[c].result = NULL
               /\ calls[c].path = "hit" => calls[c].result \in calls[c].found
               /\ calls[c].path = "net" =>
                     calls[c].result \in {NULL, calls[c].fullTranslation})
    /\ [][\A c \in CallIds :
            ReadDone(c) =>
               /\ calls'[c].result = calls[c].fullTranslation
               /\ calls[c].fullTranslation = <<>> => cache' = cache]_vars

C30_Witness ==
    \E c \in CallIds :
       /\ lastResolved = c
       /\ calls[c].path = "net"
       /\ calls[c].doneSeen
       /\ calls[c].result = <<>>
       /\ CachedFor(c) = {}

\* C31 as stated: every entry of the cache holds a non-empty translation,
\* and a cache hit with a callback starts with a non-empty fragment.
C31_EntriesNonEmpty ==
    /\ \A e \in CacheEntries(cache) : e.translation # <<>>
    /\ \A c \in CallIds :
          (calls[c].path = "hit" /\ calls[c].hasCallback)
             => /\ Truthy(calls[c].chunks[1].chunk)
                /\ ~calls[c].chunks[1].isComplete

\* C31: the write-through adds no entry with an empty translation (an entry
\* that is empty after the end of a stream was there before it), and a cache
\* hit on a non-empty entry starts with a non-empty fragment; an entry that
\* saveTranslationToCache wrote with an empty translation is replayed as the
\* completion call alone.
C31_WriteThroughEntriesNonEmpty ==
    /\ [][\A c \in CallIds :
            ReadDone(c) =>
               {e \in CacheEntries(cache') : e.translation = <<>>}
                  \subseteq CacheEntries(cache)]_vars
    /\ [](\A c \in CallIds :
            (calls[c].path = "hit" /\ calls[c].hasCallback)
               => IF calls[c].cachedTranslation # <<>>
                  THEN /\ Truthy(calls[c].chunks[1].chunk)
                       /\ ~calls[c].chunks[1].isComplete
                  ELSE calls[c].chunks = <<Chunk(<<>>, TRUE)>>)

C31_Witness ==
    \E c, p \in CallIds :
       /\ calls[p].path = "net"
       /\ calls[p].result = <<"x">>
       /\ CachedFor(p) = {<<"x">>}
       /\ calls[c].path = "hit"
       /\ calls[c].hasCallback
       /\ calls[c].cachedTranslation = <<>>
       /\ calls[c].chunks = <<Chunk(<<>>, TRUE)>>

\* C32: the call prefetchNextQuoteTranslation makes has no callback, so it
\* invokes none and the translation block stays as it was; with English as
\* the current language it makes no call and so no request; its promise is
\* never rejected: when it has returned the promise is resolved, and a call
\* that resolved to null (or to no text) or a quotes request that failed
\* has only been logged.
C32_PrefetchFireAndForget ==
    /\ \A c \in CallIds :
          calls[c].caller = "prefetch"
             => ~calls[c].hasCallback /\ calls[c].chunks = <<>>
    /\ dom = BlankDom
    /\ prefetch.lang = EN
          => /\ prefetch.call = 0
             /\ \A c \in CallIds : calls[c].caller # "prefetch"
    /\ prefetch.settled # "rejected"
    /\ prefetch.pc = "done" => prefetch.settled = "resolved"
    /\ (prefetch.pc = "done" /\ prefetch.call # 0)
          => prefetch.log = IF Truthy(calls[prefetch.call].result)
                            THEN "completed" ELSE "failed"

C32_Witness ==
    /\ prefetch.pc = "done"
    /\ prefetch.call # 0
    /\ calls[prefetch.call].requests = 1
    /\ calls[prefetch.call].result = NULL
    /\ prefetch.log = "failed"
    /\ prefetch.settled = "resolved"

\* A step of the connection check: its call, or the arrival of its outcome.
TestStep ==
    \/ \E o \in TestOverrides : TestTranslationAPI(o)
    \/ \E st \in HttpStatuses : TestHttpError(st)
    \/ \E n \in 0..MaxChoices : TestBody(n)
    \/ TestRejected

\* C33: no step of the connection check changes the persisted settings, the
\* settings object of the page, the defaults or the cache, whatever was
\* typed and whatever the outcome; and a translateQuoteStreaming call made
\* at any time is turned away or not by the saved settings alone, not by
\* the values the check was made with.
C33_TestLeavesSettingsAndCache ==
    /\ [][TestStep => /\ storedSettings' = storedSettings
                      /\ pageSettings' = pageSettings
                      /\ defaultSettings' = defaultSettings
                      /\ cache' = cache]_vars
    /\ [][\A c \in CallIds :
            (calls[c].pc = "idle" /\ calls'[c].pc # "idle")
               => /\ calls'[c].saw.apiKey = CurrentSettings.apiKey
                  /\ calls'[c].path = "short"
                        <=> ShortCircuit(CurrentSettings, calls'[c].targetLang)
                  /\ calls'[c].path # "short" => calls'[c].requests = 1]_vars

C33_Witness ==
    \E c \in CallIds :
       /\ test.pc = "done"
       /\ test.override
       /\ test.apiKey = "k"
       /\ test.result = {TestResult(TRUE, "200")}
       /\ \A r \in storedSettings : r.apiKey = "" /\ r.enabled
       /\ storedSettings # {}
       /\ lastResolved = c
       /\ calls[c].path = "short"
       /\ calls[c].saw.enabled
       /\ calls[c].saw.apiKey = ""

====
